---------------------------- MODULE Spec2Model ----------------------------
(***************************************************************************)
(* The question-answering notebook                                         *)
(* src/questions-answering-bert-walktrhough.ipynb, run top to bottom.      *)
(*                                                                         *)
(* The state is the kernel's namespace (one variable per Python name the   *)
(* code cells assign) plus what the cells print.  One action per code      *)
(* cell; cells are numbered as in the notebook file, markdown cells        *)
(* included, so the first code cell is cell 5 and the last is cell 21.     *)
(*                                                                         *)
(* Texts are sequences of lower-cased words and punctuation marks.  The    *)
(* pretrained tokenizer is represented by the part of its vocabulary the   *)
(* notebook prints, and the pretrained model by the scores the notebook    *)
(* prints for the sample (in units of 1e-4) and by an arbitrary choice of  *)
(* scores for every other input.                                           *)
(***************************************************************************)
EXTENDS Integers, Sequences, FiniteSets, TLC

VARIABLES
  pc,              \* the next cell to run
  BASE_MODEL,      \* cell 6
  tokenizer,       \* cell 7
  model,           \* cell 8
  question,        \* cell 10
  answer_text,     \* cell 10
  encoded_dict,    \* cell 11
  input_ids,       \* cells 13 and 14
  token_type_ids,  \* cell 13
  attention_mask,  \* cell 13
  tokens,          \* cell 14
  output,          \* cell 17
  start_logits,    \* cell 18
  end_logits,      \* cell 18
  printed_len,     \* cell 14: the length it prints
  listing,         \* cell 15: the "id >> token" lines it prints
  start_index,     \* cell 19: the start position it prints
  end_index,       \* cell 19: the end position it prints
  assigns,         \* how many times each name has been assigned
  tokenizations    \* how many token sequences the tokenizer has produced

vars ==
  << pc, BASE_MODEL, tokenizer, model, question, answer_text, encoded_dict,
     input_ids, token_type_ids, attention_mask, tokens, output, start_logits,
     end_logits, printed_len, listing, start_index, end_index, assigns,
     tokenizations >>

(***************************************************************************)
(* Bounds of the model.                                                    *)
(***************************************************************************)
\* Longest question and longest context, in words, besides the sample.
MaxWords == 1

\* The words of the other questions and contexts.
Words == {"bert", "large"}

\* The scores the model may give a token of an input other than the sample.
Scores == {0, 1}

(***************************************************************************)
(* What the notebook's outputs record for the sample.                      *)
(***************************************************************************)
RecordedInputIds ==
  << 101, 2129, 2116, 11709, 2515, 14324, 1011, 2312, 2031, 1029,
     102, 14324, 1011, 2312, 2003, 2428, 2502, 1012, 1012, 1012,
     2009, 2038, 2484, 1011, 9014, 1998, 2019, 7861, 8270, 4667,
     2946, 1997, 1015, 1010, 6185, 2549, 1010, 2005, 1037, 2561,
     1997, 16029, 2213, 11709, 999, 10462, 2009, 2003, 1015, 1012,
     4090, 18259, 1010, 2061, 5987, 2009, 2000, 2202, 1037, 3232,
     2781, 2000, 8816, 2000, 2115, 15270, 2497, 6013, 1012, 102 >>

RecordedTokenTypeIds ==
  << 0, 0, 0, 0, 0, 0, 0, 0, 0, 0, 0, 1, 1, 1, 1, 1, 1, 1, 1, 1,
     1, 1, 1, 1, 1, 1, 1, 1, 1, 1, 1, 1, 1, 1, 1, 1, 1, 1, 1, 1,
     1, 1, 1, 1, 1, 1, 1, 1, 1, 1, 1, 1, 1, 1, 1, 1, 1, 1, 1, 1,
     1, 1, 1, 1, 1, 1, 1, 1, 1, 1 >>

RecordedAttentionMask ==
  << 1, 1, 1, 1, 1, 1, 1, 1, 1, 1, 1, 1, 1, 1, 1, 1, 1, 1, 1, 1,
     1, 1, 1, 1, 1, 1, 1, 1, 1, 1, 1, 1, 1, 1, 1, 1, 1, 1, 1, 1,
     1, 1, 1, 1, 1, 1, 1, 1, 1, 1, 1, 1, 1, 1, 1, 1, 1, 1, 1, 1,
     1, 1, 1, 1, 1, 1, 1, 1, 1, 1 >>

RecordedListing ==
  << <<101, "[CLS]">>, <<2129, "how">>, <<2116, "many">>, <<11709, "parameters">>,
     <<2515, "does">>, <<14324, "bert">>, <<1011, "-">>, <<2312, "large">>,
     <<2031, "have">>, <<1029, "?">>, <<102, "[SEP]">>, <<14324, "bert">>,
     <<1011, "-">>, <<2312, "large">>, <<2003, "is">>, <<2428, "really">>,
     <<2502, "big">>, <<1012, ".">>, <<1012, ".">>, <<1012, ".">>,
     <<2009, "it">>, <<2038, "has">>, <<2484, "24">>, <<1011, "-">>,
     <<9014, "layers">>, <<1998, "and">>, <<2019, "an">>, <<7861, "em">>,
     <<8270, "##bed">>, <<4667, "##ding">>, <<2946, "size">>, <<1997, "of">>,
     <<1015, "1">>, <<1010, ",">>, <<6185, "02">>, <<2549, "##4">>,
     <<1010, ",">>, <<2005, "for">>, <<1037, "a">>, <<2561, "total">>,
     <<1997, "of">>, <<16029, "340">>, <<2213, "##m">>, <<11709, "parameters">>,
     <<999, "!">>, <<10462, "altogether">>, <<2009, "it">>, <<2003, "is">>,
     <<1015, "1">>, <<1012, ".">>, <<4090, "34">>, <<18259, "##gb">>,
     <<1010, ",">>, <<2061, "so">>, <<5987, "expect">>, <<2009, "it">>,
     <<2000, "to">>, <<2202, "take">>, <<1037, "a">>, <<3232, "couple">>,
     <<2781, "minutes">>, <<2000, "to">>, <<8816, "download">>, <<2000, "to">>,
     <<2115, "your">>, <<15270, "cola">>, <<2497, "##b">>, <<6013, "instance">>,
     <<1012, ".">>, <<102, "[SEP]">> >>

RecordedStartLogits ==
  << 3870, 3425, 2221, -1389, -598, 167, 2192, -195,
     358, 1572, 2594, 26, 3877, 2388, -2559, -2483,
     -1877, -95, 1381, 192, -996, -1723, -579, 4340,
     2965, 91, -136, -8, 2370, 1961, -3182, -174,
     -215, -2632, 3457, -4221, 2370, 834, 156, -4788,
     -394, -963, 3294, -429, 606, -20, -1711, -3001,
     -4400, -3295, -2250, -2735, 2988, -1878, -589, -34,
     -199, -3540, -1299, -4777, -1572, -1968, -1163, 2619,
     -1417, -2043, -156, -2806, 3504, 2129 >>

RecordedEndLogits ==
  << 2750, 3025, 1982, 2804, 134, 1392, -3005, 1847,
     2117, 1993, -2266, -302, -1538, 314, -2372, -445,
     2061, 1308, 390, 2574, 2415, -1638, 1083, -361,
     451, -1178, 372, -3832, -1898, 1761, 375, 554,
     2993, -798, -2169, 2698, -4066, 2325, 1174, 3165,
     3443, 3851, 1287, 2415, 2915, -454, 534, -2316,
     370, -2469, 754, -5071, -3522, 1184, 84, 403,
     1088, -4221, -1754, 2822, -1701, 318, 644, 2431,
     3674, -1204, 1616, 2142, -2207, -2640 >>

SampleQuestion ==
  << "how", "many", "parameters", "does", "bert", "-", "large", "have", "?" >>

SampleAnswerText ==
  << "bert", "-", "large", "is", "really", "big", ".", ".", ".",
     "it", "has", "24", "-", "layers", "and", "an", "embedding", "size",
     "of", "1", ",", "024", ",", "for", "a", "total", "of",
     "340m", "parameters", "!", "altogether", "it", "is", "1", ".", "34gb",
     ",", "so", "expect", "it", "to", "take", "a", "couple", "minutes",
     "to", "download", "to", "your", "colab", "instance", "." >>

Vocabulary ==
  { [id |-> 101, text |-> "[CLS]", cont |-> FALSE],
    [id |-> 102, text |-> "[SEP]", cont |-> FALSE],
    [id |-> 999, text |-> "!", cont |-> FALSE],
    [id |-> 1010, text |-> ",", cont |-> FALSE],
    [id |-> 1011, text |-> "-", cont |-> FALSE],
    [id |-> 1012, text |-> ".", cont |-> FALSE],
    [id |-> 1015, text |-> "1", cont |-> FALSE],
    [id |-> 1029, text |-> "?", cont |-> FALSE],
    [id |-> 1037, text |-> "a", cont |-> FALSE],
    [id |-> 1997, text |-> "of", cont |-> FALSE],
    [id |-> 1998, text |-> "and", cont |-> FALSE],
    [id |-> 2000, text |-> "to", cont |-> FALSE],
    [id |-> 2003, text |-> "is", cont |-> FALSE],
    [id |-> 2005, text |-> "for", cont |-> FALSE],
    [id |-> 2009, text |-> "it", cont |-> FALSE],
    [id |-> 2019, text |-> "an", cont |-> FALSE],
    [id |-> 2031, text |-> "have", cont |-> FALSE],
    [id |-> 2038, text |-> "has", cont |-> FALSE],
    [id |-> 2061, text |-> "so", cont |-> FALSE],
    [id |-> 2115, text |-> "your", cont |-> FALSE],
    [id |-> 2116, text |-> "many", cont |-> FALSE],
    [id |-> 2129, text |-> "how", cont |-> FALSE],
    [id |-> 2202, text |-> "take", cont |-> FALSE],
    [id |-> 2213, text |-> "m", cont |-> TRUE],
    [id |-> 2312, text |-> "large", cont |-> FALSE],
    [id |-> 2428, text |-> "really", cont |-> FALSE],
    [id |-> 2484, text |-> "24", cont |-> FALSE],
    [id |-> 2497, text |-> "b", cont |-> TRUE],
    [id |-> 2502, text |-> "big", cont |-> FALSE],
    [id |-> 2515, text |-> "does", cont |-> FALSE],
    [id |-> 2549, text |-> "4", cont |-> TRUE],
    [id |-> 2561, text |-> "total", cont |-> FALSE],
    [id |-> 2781, text |-> "minutes", cont |-> FALSE],
    [id |-> 2946, text |-> "size", cont |-> FALSE],
    [id |-> 3232, text |-> "couple", cont |-> FALSE],
    [id |-> 4090, text |-> "34", cont |-> FALSE],
    [id |-> 4667, text |-> "ding", cont |-> TRUE],
    [id |-> 5987, text |-> "expect", cont |-> FALSE],
    [id |-> 6013, text |-> "instance", cont |-> FALSE],
    [id |-> 6185, text |-> "02", cont |-> FALSE],
    [id |-> 7861, text |-> "em", cont |-> FALSE],
    [id |-> 8270, text |-> "bed", cont |-> TRUE],
    [id |-> 8816, text |-> "download", cont |-> FALSE],
    [id |-> 9014, text |-> "layers", cont |-> FALSE],
    [id |-> 10462, text |-> "altogether", cont |-> FALSE],
    [id |-> 11709, text |-> "parameters", cont |-> FALSE],
    [id |-> 14324, text |-> "bert", cont |-> FALSE],
    [id |-> 15270, text |-> "cola", cont |-> FALSE],
    [id |-> 16029, text |-> "340", cont |-> FALSE],
    [id |-> 18259, text |-> "gb", cont |-> TRUE] }

WordPieceTable ==
  { [word |-> "!", ids |-> << 999 >>], [word |-> ",", ids |-> << 1010 >>],
    [word |-> "-", ids |-> << 1011 >>], [word |-> ".", ids |-> << 1012 >>],
    [word |-> "024", ids |-> << 6185, 2549 >>], [word |-> "1", ids |-> << 1015 >>],
    [word |-> "24", ids |-> << 2484 >>], [word |-> "340m", ids |-> << 16029, 2213 >>],
    [word |-> "34gb", ids |-> << 4090, 18259 >>], [word |-> "?", ids |-> << 1029 >>],
    [word |-> "a", ids |-> << 1037 >>], [word |-> "altogether", ids |-> << 10462 >>],
    [word |-> "an", ids |-> << 2019 >>], [word |-> "and", ids |-> << 1998 >>],
    [word |-> "bert", ids |-> << 14324 >>], [word |-> "big", ids |-> << 2502 >>],
    [word |-> "colab", ids |-> << 15270, 2497 >>], [word |-> "couple", ids |-> << 3232 >>],
    [word |-> "does", ids |-> << 2515 >>], [word |-> "download", ids |-> << 8816 >>],
    [word |-> "embedding", ids |-> << 7861, 8270, 4667 >>], [word |-> "expect", ids |-> << 5987 >>],
    [word |-> "for", ids |-> << 2005 >>], [word |-> "has", ids |-> << 2038 >>],
    [word |-> "have", ids |-> << 2031 >>], [word |-> "how", ids |-> << 2129 >>],
    [word |-> "instance", ids |-> << 6013 >>], [word |-> "is", ids |-> << 2003 >>],
    [word |-> "it", ids |-> << 2009 >>], [word |-> "large", ids |-> << 2312 >>],
    [word |-> "layers", ids |-> << 9014 >>], [word |-> "many", ids |-> << 2116 >>],
    [word |-> "minutes", ids |-> << 2781 >>], [word |-> "of", ids |-> << 1997 >>],
    [word |-> "parameters", ids |-> << 11709 >>], [word |-> "really", ids |-> << 2428 >>],
    [word |-> "size", ids |-> << 2946 >>], [word |-> "so", ids |-> << 2061 >>],
    [word |-> "take", ids |-> << 2202 >>], [word |-> "to", ids |-> << 2000 >>],
    [word |-> "total", ids |-> << 2561 >>], [word |-> "your", ids |-> << 2115 >>] }

(***************************************************************************)
(* The tokenizer.                                                          *)
(***************************************************************************)
CLS == 101

SEP == 102

\* A token is its text and whether it continues the token before it; the
\* tokenizer writes a continuation with "##" in front.
TokenString(t) ==
  IF t.cont THEN "##" \o t.text ELSE t.text

\* The WordPiece ids of one word.
WordPiece(word) ==
  (CHOOSE e \in WordPieceTable : e.word = word).ids

\* The WordPiece ids of a text, word by word.
RECURSIVE Tokenize(_)
Tokenize(text) ==
  IF text = << >> THEN << >>
  ELSE WordPiece(Head(text)) \o Tokenize(Tail(text))

\* The same without the closing [SEP].
BuildInputsNoClosingSep(a, b) ==
  << CLS >> \o a \o << SEP >> \o b

\* [CLS] A [SEP] B [SEP]
BuildInputs(a, b) ==
  << CLS >> \o a \o << SEP >> \o b \o << SEP >>

\* The same with the closing [SEP] marked 0, as a special token.
TokenTypeIdsClosingSepZero(a, b) ==
  [i \in 1..(Len(a) + 2) |-> 0] \o [i \in 1..Len(b) |-> 1] \o << 0 >>

\* 0 for [CLS] A [SEP], 1 for B [SEP]
TokenTypeIds(a, b) ==
  [i \in 1..(Len(a) + 2) |-> 0] \o [i \in 1..(Len(b) + 1) |-> 1]

\* The same with the first [SEP] counted with B.
TokenizerCallSepWithB(q, a) ==
  LET ids == BuildInputs(Tokenize(q), Tokenize(a))
  IN  [input_ids      |-> ids,
       token_type_ids |-> [i \in 1..(Len(Tokenize(q)) + 1) |-> 0]
                            \o [i \in 1..(Len(Tokenize(a)) + 2) |-> 1],
       attention_mask |-> [i \in 1..Len(ids) |-> 1]]

\* tokenizer(question, answer_text)
TokenizerCall(q, a) ==
  LET ids == BuildInputs(Tokenize(q), Tokenize(a))
  IN  [input_ids      |-> ids,
       token_type_ids |-> TokenTypeIds(Tokenize(q), Tokenize(a)),
       attention_mask |-> [i \in 1..Len(ids) |-> 1]]

\* The same with add_special_tokens=False.
TokenizerEncodeNoSpecialTokens(q, a) ==
  Tokenize(q) \o Tokenize(a)

\* The same with the two texts in the other order.
TokenizerEncodeSwapped(q, a) ==
  BuildInputs(Tokenize(a), Tokenize(q))

\* tokenizer.encode(question, answer_text)
TokenizerEncode(q, a) ==
  BuildInputs(Tokenize(q), Tokenize(a))

\* The same conversion with skip_special_tokens=True: [CLS] and [SEP] are
\* left out of the result.
RECURSIVE ConvertIdsToTokensSkipSpecial(_)
ConvertIdsToTokensSkipSpecial(ids) ==
  IF ids = << >> THEN << >>
  ELSE LET e == CHOOSE v \in Vocabulary : v.id = Head(ids)
       IN  (IF Head(ids) \in {CLS, SEP} THEN << >>
            ELSE << [text |-> e.text, cont |-> e.cont] >>)
           \o ConvertIdsToTokensSkipSpecial(Tail(ids))

\* tokenizer.convert_ids_to_tokens(input_ids)
ConvertIdsToTokens(ids) ==
  [i \in 1..Len(ids) |->
     LET e == CHOOSE v \in Vocabulary : v.id = ids[i]
     IN  [text |-> e.text, cont |-> e.cont]]

(***************************************************************************)
(* The model.                                                              *)
(***************************************************************************)
\* The same with no scores for the position of [CLS].
ModelOutputsWithoutCls(ids, types) ==
  IF ids = RecordedInputIds /\ types = RecordedTokenTypeIds
  THEN {[start_logits |-> Tail(RecordedStartLogits),
         end_logits   |-> Tail(RecordedEndLogits)]}
  ELSE {[start_logits |-> s, end_logits |-> e] :
          s \in [1..(Len(ids) - 1) -> Scores],
          e \in [1..(Len(ids) - 1) -> Scores]}

\* model(input_ids, token_type_ids): one start score and one end score per
\* position.  The scores of the sample are the ones the notebook prints.
ModelOutputs(ids, types) ==
  IF ids = RecordedInputIds /\ types = RecordedTokenTypeIds
  THEN {[start_logits |-> RecordedStartLogits, end_logits |-> RecordedEndLogits]}
  ELSE {[start_logits |-> s, end_logits |-> e] :
          s \in [1..Len(ids) -> Scores], e \in [1..Len(ids) -> Scores]}

\* tensor.argmax(): the position, counted from 0, of the first maximal value.
ArgMax(t) ==
  (CHOOSE i \in 1..Len(t) :
     /\ \A j \in 1..Len(t) : t[j] <= t[i]
     /\ \A j \in 1..(i - 1) : t[j] < t[i]) - 1

(***************************************************************************)
(* The cells.                                                              *)
(***************************************************************************)
Names ==
  {"BASE_MODEL", "tokenizer", "model", "question", "answer_text",
   "encoded_dict", "input_ids", "token_type_ids", "attention_mask", "tokens",
   "output", "start_logits", "end_logits"}

RECURSIVE Assigned(_, _)
Assigned(a, names) ==
  IF names = << >> THEN a
  ELSE Assigned([a EXCEPT ![Head(names)] = @ + 1], Tail(names))

Texts ==
  UNION {[1..k -> Words] : k \in 0..MaxWords}

Queries ==
  {<< SampleQuestion, SampleAnswerText >>} \cup (Texts \X Texts)

NoDict ==
  [input_ids |-> << >>, token_type_ids |-> << >>, attention_mask |-> << >>]

NoOutput ==
  [start_logits |-> << >>, end_logits |-> << >>]

Init ==
  /\ pc = "cell5"
  /\ BASE_MODEL = ""
  /\ tokenizer = ""
  /\ model = ""
  /\ question = << >>
  /\ answer_text = << >>
  /\ encoded_dict = NoDict
  /\ input_ids = << >>
  /\ token_type_ids = << >>
  /\ attention_mask = << >>
  /\ tokens = << >>
  /\ output = NoOutput
  /\ start_logits = << >>
  /\ end_logits = << >>
  /\ printed_len = -1
  /\ listing = << >>
  /\ start_index = -1
  /\ end_index = -1
  /\ assigns = [n \in Names |-> 0]
  /\ tokenizations = 0

\* import torch; from transformers import ...
Cell5 ==
  /\ pc = "cell5"
  /\ pc' = "cell6"
  /\ UNCHANGED << BASE_MODEL, tokenizer, model, question, answer_text,
                  encoded_dict, input_ids, token_type_ids, attention_mask,
                  tokens, output, start_logits, end_logits, printed_len,
                  listing, start_index, end_index, assigns, tokenizations >>

\* BASE_MODEL = 'bert-large-uncased-whole-word-masking-finetuned-squad'
Cell6 ==
  /\ pc = "cell6"
  /\ BASE_MODEL' = "bert-large-uncased-whole-word-masking-finetuned-squad"
  /\ assigns' = Assigned(assigns, << "BASE_MODEL" >>)
  /\ pc' = "cell7"
  /\ UNCHANGED << tokenizer, model, question, answer_text, encoded_dict,
                  input_ids, token_type_ids, attention_mask, tokens, output,
                  start_logits, end_logits, printed_len, listing, start_index,
                  end_index, tokenizations >>

\* tokenizer = BertTokenizer.from_pretrained(BASE_MODEL)
Cell7 ==
  /\ pc = "cell7"
  /\ tokenizer' = BASE_MODEL
  /\ assigns' = Assigned(assigns, << "tokenizer" >>)
  /\ pc' = "cell8"
  /\ UNCHANGED << BASE_MODEL, model, question, answer_text, encoded_dict,
                  input_ids, token_type_ids, attention_mask, tokens, output,
                  start_logits, end_logits, printed_len, listing, start_index,
                  end_index, tokenizations >>

\* model = BertForQuestionAnswering.from_pretrained(BASE_MODEL)
Cell8 ==
  /\ pc = "cell8"
  /\ model' = BASE_MODEL
  /\ assigns' = Assigned(assigns, << "model" >>)
  /\ pc' = "cell9"
  /\ UNCHANGED << BASE_MODEL, tokenizer, question, answer_text, encoded_dict,
                  input_ids, token_type_ids, attention_mask, tokens, output,
                  start_logits, end_logits, printed_len, listing, start_index,
                  end_index, tokenizations >>

\* model.num_parameters()
Cell9 ==
  /\ pc = "cell9"
  /\ pc' = "cell10"
  /\ UNCHANGED << BASE_MODEL, tokenizer, model, question, answer_text,
                  encoded_dict, input_ids, token_type_ids, attention_mask,
                  tokens, output, start_logits, end_logits, printed_len,
                  listing, start_index, end_index, assigns, tokenizations >>

\* question = ...; answer_text = ...
Cell10 ==
  /\ pc = "cell10"
  /\ \E qa \in Queries :
       /\ question' = qa[1]
       /\ answer_text' = qa[2]
  /\ assigns' = Assigned(assigns, << "question", "answer_text" >>)
  /\ pc' = "cell11"
  /\ UNCHANGED << BASE_MODEL, tokenizer, model, encoded_dict, input_ids,
                  token_type_ids, attention_mask, tokens, output, start_logits,
                  end_logits, printed_len, listing, start_index, end_index,
                  tokenizations >>

\* encoded_dict = tokenizer(question, answer_text)
Cell11 ==
  /\ pc = "cell11"
  /\ encoded_dict' = TokenizerCall(question, answer_text)
  /\ tokenizations' = tokenizations + 1
  /\ assigns' = Assigned(assigns, << "encoded_dict" >>)
  /\ pc' = "cell12"
  /\ UNCHANGED << BASE_MODEL, tokenizer, model, question, answer_text,
                  input_ids, token_type_ids, attention_mask, tokens, output,
                  start_logits, end_logits, printed_len, listing, start_index,
                  end_index >>

\* encoded_dict
Cell12 ==
  /\ pc = "cell12"
  /\ pc' = "cell13"
  /\ UNCHANGED << BASE_MODEL, tokenizer, model, question, answer_text,
                  encoded_dict, input_ids, token_type_ids, attention_mask,
                  tokens, output, start_logits, end_logits, printed_len,
                  listing, start_index, end_index, assigns, tokenizations >>

\* input_ids = encoded_dict['input_ids']; token_type_ids = ...;
\* attention_mask = ...
Cell13 ==
  /\ pc = "cell13"
  /\ input_ids' = encoded_dict.input_ids
  /\ token_type_ids' = encoded_dict.token_type_ids
  /\ attention_mask' = encoded_dict.attention_mask
  /\ assigns' = Assigned(assigns, << "input_ids", "token_type_ids",
                                     "attention_mask" >>)
  /\ pc' = "cell14"
  /\ UNCHANGED << BASE_MODEL, tokenizer, model, question, answer_text,
                  encoded_dict, tokens, output, start_logits, end_logits,
                  printed_len, listing, start_index, end_index,
                  tokenizations >>

\* input_ids = tokenizer.encode(question, answer_text); print(len(input_ids));
\* tokens = tokenizer.convert_ids_to_tokens(input_ids)
Cell14 ==
  /\ pc = "cell14"
  /\ input_ids' = TokenizerEncode(question, answer_text)
  /\ tokenizations' = tokenizations + 1
  /\ printed_len' = Len(input_ids')
  /\ tokens' = ConvertIdsToTokens(input_ids')
  /\ assigns' = Assigned(assigns, << "input_ids", "tokens" >>)
  /\ pc' = "cell15"
  /\ UNCHANGED << BASE_MODEL, tokenizer, model, question, answer_text,
                  encoded_dict, token_type_ids, attention_mask, output,
                  start_logits, end_logits, listing, start_index, end_index >>

\* for input_id, token in zip(input_ids, tokens): print(...)
Zip(a, b) ==
  [i \in 1..(IF Len(a) <= Len(b) THEN Len(a) ELSE Len(b)) |-> << a[i], b[i] >>]

Cell15 ==
  /\ pc = "cell15"
  /\ listing' = Zip(input_ids, [i \in 1..Len(tokens) |-> TokenString(tokens[i])])
  /\ pc' = "cell17"
  /\ UNCHANGED << BASE_MODEL, tokenizer, model, question, answer_text,
                  encoded_dict, input_ids, token_type_ids, attention_mask,
                  tokens, output, start_logits, end_logits, printed_len,
                  start_index, end_index, assigns, tokenizations >>

\* output = model(torch.LongTensor([input_ids]),
\*                torch.LongTensor([token_type_ids]))
Cell17 ==
  /\ pc = "cell17"
  /\ output' \in ModelOutputs(input_ids, token_type_ids)
  /\ assigns' = Assigned(assigns, << "output" >>)
  /\ pc' = "cell18"
  /\ UNCHANGED << BASE_MODEL, tokenizer, model, question, answer_text,
                  encoded_dict, input_ids, token_type_ids, attention_mask,
                  tokens, start_logits, end_logits, printed_len, listing,
                  start_index, end_index, tokenizations >>

\* start_logits = output.start_logits; end_logits = output.end_logits
Cell18 ==
  /\ pc = "cell18"
  /\ start_logits' = output.start_logits
  /\ end_logits' = output.end_logits
  /\ assigns' = Assigned(assigns, << "start_logits", "end_logits" >>)
  /\ pc' = "cell19"
  /\ UNCHANGED << BASE_MODEL, tokenizer, model, question, answer_text,
                  encoded_dict, input_ids, token_type_ids, attention_mask,
                  tokens, output, printed_len, listing, start_index,
                  end_index, tokenizations >>

\* print(start_logits.argmax())
StartArgmax(t) ==
  ArgMax(t)

\* The same print with the tensor of the start scores left in place.
EndArgmaxOfStartScores(t) ==
  ArgMax(start_logits)

\* print(end_logits.argmax())
EndArgmax(t) ==
  ArgMax(t)

\* The prints of the two score tensors, their maxima and their arg-maxima.
Cell19 ==
  /\ pc = "cell19"
  /\ start_index' = StartArgmax(start_logits)
  /\ end_index' = EndArgmax(end_logits)
  /\ pc' = "cell20"
  /\ UNCHANGED << BASE_MODEL, tokenizer, model, question, answer_text,
                  encoded_dict, input_ids, token_type_ids, attention_mask,
                  tokens, output, start_logits, end_logits, printed_len,
                  listing, assigns, tokenizations >>

\* An empty cell.
Cell20 ==
  /\ pc = "cell20"
  /\ pc' = "cell21"
  /\ UNCHANGED << BASE_MODEL, tokenizer, model, question, answer_text,
                  encoded_dict, input_ids, token_type_ids, attention_mask,
                  tokens, output, start_logits, end_logits, printed_len,
                  listing, start_index, end_index, assigns, tokenizations >>

\* An empty cell, the last one.
Cell21 ==
  /\ pc = "cell21"
  /\ pc' = "done"
  /\ UNCHANGED << BASE_MODEL, tokenizer, model, question, answer_text,
                  encoded_dict, input_ids, token_type_ids, attention_mask,
                  tokens, output, start_logits, end_logits, printed_len,
                  listing, start_index, end_index, assigns, tokenizations >>

Next ==
  \/ Cell5 \/ Cell6 \/ Cell7 \/ Cell8 \/ Cell9 \/ Cell10 \/ Cell11
  \/ Cell12 \/ Cell13 \/ Cell14 \/ Cell15 \/ Cell17 \/ Cell18 \/ Cell19
  \/ Cell20 \/ Cell21

Spec == Init /\ [][Next]_vars

(***************************************************************************)
(* Answer extraction, as the specification describes it: the tokens from   *)
(* position start to position end inclusive (positions count from 0),      *)
(* separated by one space, a continuation token appended to the token      *)
(* before it without its "##".                                             *)
(***************************************************************************)
RECURSIVE Rejoin(_, _, _)
Rejoin(toks, i, last) ==
  IF i > last THEN ""
  ELSE (IF toks[i].cont THEN toks[i].text ELSE " " \o toks[i].text)
       \o Rejoin(toks, i + 1, last)

ExtractAnswer(toks, start, end) ==
  IF end < start THEN ""
  ELSE TokenString(toks[start + 1]) \o Rejoin(toks, start + 2, end + 1)

(***************************************************************************)
(* The properties.                                                         *)
(***************************************************************************)
\* The run is on the sample question and context of cell 10.
SampleRun ==
  /\ assigns["question"] > 0
  /\ question = SampleQuestion
  /\ answer_text = SampleAnswerText

\* Cell 19 has printed the two positions.
Reported ==
  pc \in {"cell20", "cell21", "done"}

\* C1, as stated: on the sample, where the printed listing has 70 tokens and
\* the printed positions are 23 and 41, the tokens from 23 to 41 inclusive,
\* rejoined, read "24 - layers and an embedding size of 1 , 024".
C1_SampleAnswerAsStated ==
  (Reported /\ SampleRun) =>
    ExtractAnswer(tokens, 23, 41)
      = "24 - layers and an embedding size of 1 , 024"

\* C1, amended: on the sample the listing is the 70 lines the notebook
\* prints and the positions are 23 and 41; the tokens from 23 to 41
\* inclusive, rejoined, read
\* "- layers and an embedding size of 1 , 024 , for a total of 340", and the
\* text "24 - layers and an embedding size of 1 , 024" is the span from 22
\* to 35.
C1_SampleAnswer ==
  (Reported /\ SampleRun) =>
    /\ listing = RecordedListing
    /\ Len(tokens) = 70
    /\ start_index = 23
    /\ end_index = 41
    /\ ExtractAnswer(tokens, start_index, end_index)
         = "- layers and an embedding size of 1 , 024 , for a total of 340"
    /\ ExtractAnswer(tokens, 22, 35)
         = "24 - layers and an embedding size of 1 , 024"

\* The sample run is over; positions 28 and 29 of its tokens are the
\* continuations ##bed and ##ding.
C1_Witness ==
  /\ pc = "done"
  /\ SampleRun
  /\ start_index = 23
  /\ end_index = 41
  /\ tokens[29].cont
  /\ tokens[30].cont

\* C2: the printed start position is a position of a maximal start score and
\* the printed end position is a position of a maximal end score, each the
\* first such position of its own tensor, whatever the other tensor holds
\* and whichever of the two positions comes first.
C2_ArgmaxSelection ==
  Reported =>
    /\ start_index \in 0..(Len(start_logits) - 1)
    /\ end_index \in 0..(Len(end_logits) - 1)
    /\ \A i \in 1..Len(start_logits) :
         /\ start_logits[i] <= start_logits[start_index + 1]
         /\ i < start_index + 1 => start_logits[i] < start_logits[start_index + 1]
    /\ \A i \in 1..Len(end_logits) :
         /\ end_logits[i] <= end_logits[end_index + 1]
         /\ i < end_index + 1 => end_logits[i] < end_logits[end_index + 1]

\* The end position comes before the start position, and the start position
\* is not a position of a maximal end score.
C2_Witness ==
  /\ pc = "done"
  /\ end_index < start_index
  /\ end_logits[start_index + 1] < end_logits[end_index + 1]
  /\ start_logits[end_index + 1] < start_logits[start_index + 1]

\* C3: a run in which the end position comes before the start position does
\* not complete as if the two positions were an answer: it ends in an error
\* before its last cell is done.
C3_DegenerateSpanIsError ==
  ~(pc = "done" /\ start_index >= 0 /\ end_index >= 0 /\ end_index < start_index)

\* C4: the segment mask the tokenizer returns is one run of 0s from index 0
\* followed by one run of 1s, with no 0 after a 1, and the two runs together
\* are as long as the token sequence.
C4_SegmentMaskShape ==
  assigns["encoded_dict"] > 0 =>
    LET mask == encoded_dict.token_type_ids
    IN  /\ Len(mask) = Len(encoded_dict.input_ids)
        /\ \E k \in 1..(Len(mask) - 1) :
             /\ \A i \in 1..k : mask[i] = 0
             /\ \A i \in (k + 1)..Len(mask) : mask[i] = 1

\* The mask of a question and a context that both have words.
C4_Witness ==
  /\ assigns["encoded_dict"] > 0
  /\ ~SampleRun
  /\ question # << >>
  /\ answer_text # << >>
  /\ encoded_dict.token_type_ids = << 0, 0, 0, 1, 1 >>

\* C5: the start scores and the end scores have one entry per token of the
\* sequence given to the model (70 on the sample), and the two printed
\* positions are indices of that sequence.
C5_ScoreLengths ==
  /\ assigns["output"] > 0 =>
       /\ Len(output.start_logits) = Len(input_ids)
       /\ Len(output.end_logits) = Len(input_ids)
  /\ assigns["start_logits"] > 0 =>
       /\ Len(start_logits) = Len(input_ids)
       /\ Len(end_logits) = Len(input_ids)
       /\ SampleRun => Len(start_logits) = 70 /\ Len(end_logits) = 70
  /\ Reported =>
       /\ start_index \in 0..(Len(input_ids) - 1)
       /\ end_index \in 0..(Len(input_ids) - 1)

\* The last token has the only maximal end score.
C5_Witness ==
  /\ pc = "done"
  /\ Len(input_ids) = 5
  /\ Len(end_logits) = 5
  /\ end_index = 4
  /\ start_index = 0

RECURSIVE SepsBefore(_, _)
SepsBefore(ids, n) ==
  IF n = 0 THEN 0
  ELSE SepsBefore(ids, n - 1) + (IF ids[n] = SEP THEN 1 ELSE 0)

\* C8: with q question tokens and c context tokens the token sequence has
\* q + c + 3 entries: [CLS], the question tokens, [SEP] at index q + 1, the
\* context tokens, [SEP] at the last index; the segment mask is 0 exactly at
\* the indices 0..q+1 and 1 exactly at q+2..q+c+2.  On the sample q = 9 and
\* c = 58: 11 zeros and 59 ones.
C8_TokenLayout ==
  assigns["encoded_dict"] > 0 =>
    LET ids  == encoded_dict.input_ids
        mask == encoded_dict.token_type_ids
        q    == Len(Tokenize(question))
        c    == Len(Tokenize(answer_text))
    IN  /\ Len(ids) = q + c + 3
        /\ ids[1] = CLS
        /\ SubSeq(ids, 2, q + 1) = Tokenize(question)
        /\ ids[q + 2] = SEP
        /\ SubSeq(ids, q + 3, q + c + 2) = Tokenize(answer_text)
        /\ ids[q + c + 3] = SEP
        /\ SepsBefore(ids, Len(ids)) = 2
        /\ DOMAIN mask = 1..(q + c + 3)
        /\ \A i \in 1..(q + c + 3) : mask[i] = (IF i <= q + 2 THEN 0 ELSE 1)
        /\ SampleRun =>
             /\ q = 9
             /\ c = 58
             /\ Cardinality({i \in DOMAIN mask : mask[i] = 0}) = 11
             /\ Cardinality({i \in DOMAIN mask : mask[i] = 1}) = 59
             /\ ids = RecordedInputIds
             /\ mask = RecordedTokenTypeIds

\* The sample is tokenized: its context has more tokens than words.
C8_Witness ==
  /\ assigns["encoded_dict"] > 0
  /\ SampleRun
  /\ Len(answer_text) = 52
  /\ Len(encoded_dict.input_ids) = 70

\* C9, as stated: a run produces one token sequence, and input_ids, the
\* tokenizer and the model are each assigned once.
C9_ProducedOnceAsStated ==
  /\ tokenizations <= 1
  /\ assigns["input_ids"] <= 1
  /\ assigns["tokenizer"] <= 1
  /\ assigns["model"] <= 1

\* C9, amended: a run produces the token sequence twice (cell 11 and cell 14)
\* and assigns input_ids twice (cell 13 and cell 14), the second time to the
\* value it already has: once assigned, input_ids, token_type_ids, the
\* tokenizer and the model never change, and token_type_ids, the tokenizer
\* and the model are never assigned again.
C9_ValuesWrittenOnce ==
  [][ /\ assigns["input_ids"] > 0 =>
           /\ input_ids' = input_ids
           /\ assigns'["input_ids"] <= 2
      /\ assigns["token_type_ids"] > 0 =>
           /\ token_type_ids' = token_type_ids
           /\ assigns'["token_type_ids"] = 1
      /\ assigns["tokenizer"] > 0 =>
           /\ tokenizer' = tokenizer
           /\ assigns'["tokenizer"] = 1
      /\ assigns["model"] > 0 =>
           /\ model' = model
           /\ assigns'["model"] = 1
      /\ tokenizations' <= 2
      /\ pc = "cell14" => (assigns'["input_ids"] = 2 /\ tokenizations' = 2)
    ]_vars

\* The run is over: input_ids was assigned twice, on texts that differ.
C9_Witness ==
  /\ pc = "done"
  /\ assigns["input_ids"] = 2
  /\ tokenizations = 2
  /\ question # answer_text
  /\ assigns["tokenizer"] = 1
  /\ assigns["model"] = 1

\* C10: when the model is called, the token ids it is given (from
\* tokenizer.encode) and the segment mask it is given (from the earlier
\* tokenizer(question, answer_text)) come from the same question and context
\* and have the same length, and mask entry i describes token i: it is 1
\* exactly when a [SEP] comes before token i.
C10_AlignedAtForwardPass ==
  pc = "cell17" =>
    /\ Len(input_ids) = Len(token_type_ids)
    /\ input_ids = TokenizerEncode(question, answer_text)
    /\ token_type_ids = encoded_dict.token_type_ids
    /\ encoded_dict.input_ids = input_ids
    /\ \A i \in 1..Len(input_ids) :
         token_type_ids[i] = (IF SepsBefore(input_ids, i - 1) >= 1 THEN 1 ELSE 0)

\* The model is about to be called on a question and a context with words.
C10_Witness ==
  /\ pc = "cell17"
  /\ question # << >>
  /\ answer_text # << >>
  /\ assigns["input_ids"] = 2
  /\ Len(token_type_ids) = 5

=============================================================================
